---- MODULE Spec2Model ----
(***************************************************************************)
(* Countdown numbers game solver (cd_solver.py): the stochastic search     *)
(* guess, its callers has_solution and find_solution, and the pruner       *)
(* remove_unused_steps.                                                    *)
(*                                                                         *)
(* A step string "   a op b    = res " is held as the list of tokens that  *)
(* str.split() yields from it; every token is a string.  The pool is a     *)
(* Python list on which the code only tests membership, draws a uniformly  *)
(* random element and removes one occurrence of a value: it is held as a   *)
(* bag.                                                                    *)
(***************************************************************************)
EXTENDS Integers, Sequences, FiniteSets, Bags, TLC

VARIABLES mode, targ, nums, pc, numbers, steps, bestErr, bestAlias, bestVal,
          depth, error, solution, num_attempts, elapsed, minSeen, pruneArg

vars == <<mode, targ, nums, pc, numbers, steps, bestErr, bestAlias, bestVal,
          depth, error, solution, num_attempts, elapsed, minSeen, pruneArg>>

(***************************************************************************)
(* Bounds of the model.                                                    *)
(***************************************************************************)
\* largest source number of a pool
MaxVal == 2
\* largest pool handed to one guess call (mode "guess")
MaxPool == 5
\* largest pool handed to the guess call whose completion is checked
MaxFairPool == 4
\* largest pool handed to has_solution and find_solution
MaxLoopPool == 3
\* largest target
MaxTarget == 3
\* iterations of has_solution's loop (range(1000) in the code)
ProbeIterations == 2
\* attempt ceiling of find_solution (5e5 in the code)
AttemptCeiling == 1

\* largest operand of a step handed to remove_unused_steps directly
MaxTok == 2
\* longest list of steps handed to remove_unused_steps directly
MaxSeqLen == 3

\* minimum display duration of find_solution, in seconds
MinRuntime == 4

\* BIGNUM = 1e32, held as the largest integer TLC represents; every error
\* the model computes is smaller
BIGNUM == 2147483647

Abs(x) == IF x < 0 THEN -x ELSE x

Min(x, y) == IF x < y THEN x ELSE y

One(x) == SetToBag({x})

(***************************************************************************)
(* Decimal rendering of integers (the "d" format) and its inverse.         *)
(***************************************************************************)
Digit(d) ==
    CASE d = 0 -> "0" [] d = 1 -> "1" [] d = 2 -> "2" [] d = 3 -> "3"
      [] d = 4 -> "4" [] d = 5 -> "5" [] d = 6 -> "6" [] d = 7 -> "7"
      [] d = 8 -> "8" [] d = 9 -> "9"

RECURSIVE Dec(_)
Dec(n) ==
    IF n < 0 THEN "-" \o Dec(-n)
    ELSE IF n < 10 THEN Digit(n)
    ELSE Dec(n \div 10) \o Digit(n % 10)

\* tokens of opstr: the padding of the width-4 fields is whitespace, which
\* split() drops
OpStr(a, op, b, res) == <<Dec(a), op, Dec(b), "=", Dec(res)>>

\* tokens of the trivial step f"{target} = {target}"
TrivialStep(t) == <<Dec(t), "=", Dec(t)>>

\* tokens of the placeholder step "."
Placeholder == <<".">>

\* a solution value: None, or a list of steps
NoneSol == [isNone |-> TRUE, list |-> <<>>]

ListSol(l) == [isNone |-> FALSE, list |-> l]

(***************************************************************************)
(* Arithmetic primitives.                                                  *)
(***************************************************************************)
\* a factor test that only rejects 0
IsFactorNonzero(b, a) == b # 0

\* (a / b) == (a // b): the float quotient of two integers below 2^53 equals
\* the floor quotient exactly when the division leaves no remainder
IsFactor(b, a) ==
    IF b = 0 THEN FALSE ELSE (a \div b) * b = a

\* subtraction computed as addition
DoOpSubAsAdd(a, b, op) ==
    CASE op = "+" -> a + b
      [] op = "-" -> a + b
      [] op = "*" -> a * b
      [] op = "/" -> a \div b

DoOp(a, b, op) ==
    CASE op = "+" -> a + b
      [] op = "-" -> a - b
      [] op = "*" -> a * b
      [] op = "/" -> a \div b

\* the list ops built for the ordered pair (num_a, num_b)
Ops(num_a, num_b) ==
    <<"+", "-">>
      \o (IF 1 \notin {num_a, num_b}
          THEN <<"*">> \o (IF IsFactor(num_b, num_a) THEN <<"/">> ELSE <<>>)
          ELSE <<>>)

(***************************************************************************)
(* remove_unused_steps                                                     *)
(***************************************************************************)
InList(x, l) == \E k \in 1..Len(l) : l[k] = x

\* the five-field unpacking of step.split() raises ValueError on any other
\* number of tokens; iterating None raises TypeError
PruneRaises(sol) ==
    sol.isNone \/ \E k \in 1..Len(sol.list) : Len(sol.list[k]) # 5

UsedNumbers(l) ==
    [k \in 1..(2 * Len(l)) |-> l[(k + 1) \div 2][IF k % 2 = 1 THEN 1 ELSE 3]]

\* the scan for unused results running over steps instead of steps[:-1]
StepsToRemoveAll(l) ==
    LET used == UsedNumbers(l)
        Unused(step) == ~InList(step[5], used)
    IN  SelectSeq(l, Unused)

StepsToRemove(l) ==
    LET used == UsedNumbers(l)
        Unused(step) == ~InList(step[5], used)
    IN  SelectSeq(SubSeq(l, 1, Len(l) - 1), Unused)

\* list.remove(x): drops the first element equal to x
RECURSIVE ListRemove(_, _)
ListRemove(l, x) ==
    IF l = <<>> THEN <<>>
    ELSE IF Head(l) = x THEN Tail(l)
    ELSE <<Head(l)>> \o ListRemove(Tail(l), x)

RECURSIVE RemoveEach(_, _)
RemoveEach(l, rem) ==
    IF rem = <<>> THEN l
    ELSE RemoveEach(ListRemove(l, Head(rem)), Tail(rem))

RemoveUnusedSteps(l) == RemoveEach(l, StepsToRemove(l))

(***************************************************************************)
(* Inputs.                                                                 *)
(***************************************************************************)
RECURSIVE SumTo(_, _)
SumTo(c, v) == IF v = 0 THEN 0 ELSE c[v] + SumTo(c, v - 1)

\* the pools of 1..maxLen numbers out of 1..MaxVal
Pools(maxLen) ==
    { [v \in {w \in 1..MaxVal : c[w] > 0} |-> c[v]] :
        c \in { d \in [1..MaxVal -> 0..maxLen] : SumTo(d, MaxVal) \in 1..maxLen } }

\* the steps "a op b = res" over 1..MaxTok that guess can record for some pool
StepTexts ==
    { OpStr(t[1], Ops(t[1], t[2])[t[3]], t[2], DoOp(t[1], t[2], Ops(t[1], t[2])[t[3]])) :
        t \in { u \in (1..MaxTok) \X (1..MaxTok) \X (1..4) :
                  /\ u[1] >= u[2]
                  /\ u[3] <= Len(Ops(u[1], u[2]))
                  /\ DoOp(u[1], u[2], Ops(u[1], u[2])[u[3]]) # 0 } }

\* the lists of 1..MaxSeqLen such steps, in any order and with repeats
StepLists == UNION { [1..n -> StepTexts] : n \in 1..MaxSeqLen }

\* the state before the first call of guess, for one caller
Start(m, maxLen) ==
    /\ mode = m
    /\ targ \in 1..MaxTarget
    /\ nums \in Pools(maxLen)
    /\ pc = "call"
    /\ numbers = EmptyBag
    /\ steps = <<>>
    /\ bestErr = BIGNUM
    /\ bestAlias = FALSE
    /\ bestVal = NoneSol
    /\ depth = 0
    /\ error = BIGNUM
    /\ solution = NoneSol
    /\ num_attempts = 0
    /\ elapsed = 0
    /\ minSeen = BIGNUM
    /\ pruneArg = NoneSol

\* one call guess(targ, nums) with the default steps and best
Init == Start("guess", MaxPool)

\* has_solution(targ, nums)
InitProbe == Start("probe", MaxLoopPool)

\* run_game: find_solution, then remove_unused_steps
InitDriver == Start("driver", MaxLoopPool)

(***************************************************************************)
(* guess                                                                   *)
(***************************************************************************)
\* the list that best[1] names: best = (error, steps) keeps a reference to
\* the list steps, which later steps of the same call go on appending to
BestSolution(alias, val, stepsNow) ==
    IF alias THEN ListSol(stepsNow) ELSE val

\* guess returns (e, s) to its caller, which assigns error, solution
Return(e, s) ==
    /\ error' = e
    /\ solution' = s
    /\ pc' = "ret"
    /\ numbers' = EmptyBag
    /\ steps' = <<>>
    /\ bestErr' = BIGNUM
    /\ bestAlias' = FALSE
    /\ bestVal' = NoneSol
    /\ depth' = 0

\* the call guess(targ, nums) or guess(targ, nums, best=(error, solution))
GuessCall ==
    /\ pc = "call"
    /\ IF BagIn(targ, nums)
       THEN /\ Return(0, ListSol(<<TrivialStep(targ)>>))
            /\ minSeen' = 0
       ELSE /\ numbers' = nums
            /\ steps' = <<>>
            /\ bestErr' = IF mode = "guess" THEN BIGNUM ELSE error
            /\ bestVal' = IF mode = "guess" THEN ListSol(<<Placeholder>>)
                          ELSE solution
            /\ bestAlias' = FALSE
            /\ depth' = 0
            /\ pc' = "loop"
            /\ UNCHANGED <<error, solution, minSeen>>
    /\ UNCHANGED <<pruneArg, mode, targ, nums, num_attempts, elapsed>>

\* best replaced on a tie as well
ImprovesOrTies(err, best0) == err <= best0

\* "if error < best[0]"
Improves(err, best0) == err < best0

\* the result left out of the pool
PoolAfterNoAppend(rest, res) == rest

\* the result put into the pool twice
PoolAfterTwice(rest, res) == (rest (+) One(res)) (+) One(res)

\* "numbers.append(res)": the pool handed to the recursive call
PoolAfter(rest, res) == rest (+) One(res)

\* one pass of the while loop that records a step: two numbers are drawn,
\* ordered, an operator is drawn from ops, and the result is not 0
RecordStep ==
    /\ pc = "loop"
    /\ \E x \in BagToSet(numbers) :
       \E y \in BagToSet(numbers (-) One(x)) :
         LET num_a == IF y > x THEN y ELSE x
             num_b == IF y > x THEN x ELSE y
             rest == (numbers (-) One(x)) (-) One(y)
         IN  \E i \in 1..Len(Ops(num_a, num_b)) :
               LET op == Ops(num_a, num_b)[i]
                   res == DoOp(num_a, num_b, op)
                   err == Abs(res - targ)
                   improved == Improves(err, bestErr)
                   newAlias == improved \/ bestAlias
               IN  /\ res # 0
                   /\ minSeen' = Min(minSeen, err)
                   /\ IF err # 0 /\ BagIn(targ, PoolAfter(rest, res))
                      THEN \* the recursive call finds the target in numbers
                           Return(0, ListSol(<<TrivialStep(targ)>>))
                      ELSE /\ steps' = Append(steps, OpStr(num_a, op, num_b, res))
                           /\ bestErr' = IF improved THEN err ELSE bestErr
                           /\ bestAlias' = newAlias
                           /\ bestVal' = IF newAlias THEN NoneSol ELSE bestVal
                           /\ UNCHANGED <<error, solution>>
                           /\ IF err = 0
                              THEN \* break
                                   /\ numbers' = rest
                                   /\ depth' = depth
                                   /\ pc' = "break"
                              ELSE \* return guess(target, numbers, steps, best)
                                   /\ numbers' = PoolAfter(rest, res)
                                   /\ depth' = depth + 1
                                   /\ pc' = "loop"
    /\ UNCHANGED <<pruneArg, mode, targ, nums, num_attempts, elapsed>>

\* one pass of the while loop whose result is 0: both numbers go back
ZeroRetry ==
    /\ pc = "loop"
    /\ \E x \in BagToSet(numbers) :
       \E y \in BagToSet(numbers (-) One(x)) :
         LET num_a == IF y > x THEN y ELSE x
             num_b == IF y > x THEN x ELSE y
             rest == (numbers (-) One(x)) (-) One(y)
         IN  \E i \in 1..Len(Ops(num_a, num_b)) :
               /\ DoOp(num_a, num_b, Ops(num_a, num_b)[i]) = 0
               /\ numbers' = (rest (+) One(num_a)) (+) One(num_b)
    /\ UNCHANGED <<pruneArg, mode, targ, nums, pc, steps, bestErr, bestAlias, bestVal,
                   depth, error, solution, num_attempts, elapsed, minSeen>>

\* fewer than two numbers are left: choose_number hands out None (or the
\* list is empty) and the loop ends
Exhausted ==
    /\ pc = "loop"
    /\ BagCardinality(numbers) < 2
    /\ numbers' = EmptyBag
    /\ pc' = "break"
    /\ UNCHANGED <<pruneArg, mode, targ, nums, steps, bestErr, bestAlias, bestVal,
                   depth, error, solution, num_attempts, elapsed, minSeen>>

\* "return best" after the loop, through every enclosing call
ReturnBest ==
    /\ pc = "break"
    /\ Return(bestErr, BestSolution(bestAlias, bestVal, steps))
    /\ UNCHANGED <<pruneArg, mode, targ, nums, num_attempts, elapsed, minSeen>>

(***************************************************************************)
(* has_solution                                                            *)
(***************************************************************************)
\* the end of one pass of "for _ in range(1000)"
ProbeIter ==
    /\ mode = "probe"
    /\ pc = "ret"
    /\ num_attempts' = num_attempts + 1
    /\ pc' = IF num_attempts + 1 < ProbeIterations THEN "call" ELSE "done"
    /\ UNCHANGED <<pruneArg, mode, targ, nums, numbers, steps, bestErr, bestAlias,
                   bestVal, depth, error, solution, elapsed, minSeen>>

\* has_solution's return value
HasSolution == error = 0

(***************************************************************************)
(* find_solution and run_game                                              *)
(***************************************************************************)
\* the ceiling tested one attempt late
CeilingHitLate(n) == n > AttemptCeiling + 1

\* "if num_attempts > 5e5"
CeilingHit(n) == n > AttemptCeiling

\* the rest of one pass of "while (error > 0) or elapsed < 4" after guess
\* has returned, and the test that starts the next pass.  The clock is read
\* as 0 (less than MinRuntime) or MinRuntime (at least MinRuntime) and
\* never runs backwards.
DriverIter ==
    /\ mode = "driver"
    /\ pc = "ret"
    /\ num_attempts' = num_attempts + 1
    /\ IF CeilingHit(num_attempts + 1)
       THEN /\ pc' = "found"
            /\ elapsed' = elapsed
       ELSE \E now \in {0, MinRuntime} :
              /\ now >= elapsed
              /\ elapsed' = now
              /\ pc' = IF error > 0 \/ now < MinRuntime THEN "call" ELSE "found"
    /\ UNCHANGED <<pruneArg, mode, targ, nums, numbers, steps, bestErr, bestAlias,
                   bestVal, depth, error, solution, minSeen>>

\* remove_unused_steps(solution): on the solution find_solution hands to
\* run_game, on the solution a guess call has returned, or on a given list
Prune ==
    /\ \/ mode \in {"driver", "prune"} /\ pc = "found"
       \/ mode = "guess" /\ pc = "ret"
    /\ IF PruneRaises(solution)
       THEN /\ pc' = "raised"
            /\ solution' = solution
       ELSE /\ pc' = "pruned"
            /\ solution' = ListSol(RemoveUnusedSteps(solution.list))
    /\ pruneArg' = solution
    /\ UNCHANGED <<mode, targ, nums, numbers, steps, bestErr, bestAlias,
                   bestVal, depth, error, num_attempts, elapsed, minSeen>>

Next ==
    \/ GuessCall
    \/ RecordStep
    \/ ZeroRetry
    \/ Exhausted
    \/ ReturnBest
    \/ Prune

Spec == Init /\ [][Next]_vars

\* one call of guess that is not abandoned: a step that can be taken is
\* eventually taken, and among the random draws of a pass one that records
\* a step is eventually made
InitFair == Start("guess", MaxFairPool)

FairSpec ==
    /\ InitFair
    /\ [][Next]_vars
    /\ WF_vars(GuessCall)
    /\ WF_vars(RecordStep)
    /\ WF_vars(Exhausted)
    /\ WF_vars(ReturnBest)

NextProbe ==
    \/ GuessCall
    \/ RecordStep
    \/ ZeroRetry
    \/ Exhausted
    \/ ReturnBest
    \/ ProbeIter

SpecProbe == InitProbe /\ [][NextProbe]_vars

NextDriver ==
    \/ GuessCall
    \/ RecordStep
    \/ ZeroRetry
    \/ Exhausted
    \/ ReturnBest
    \/ DriverIter
    \/ Prune

SpecDriver == InitDriver /\ [][NextDriver]_vars

\* remove_unused_steps(l) for a given list l of arithmetic steps
InitPrune ==
    /\ mode = "prune"
    /\ targ = 1
    /\ nums = One(1)
    /\ pc = "found"
    /\ numbers = EmptyBag
    /\ steps = <<>>
    /\ bestErr = BIGNUM
    /\ bestAlias = FALSE
    /\ bestVal = NoneSol
    /\ depth = 0
    /\ error = BIGNUM
    /\ solution \in { ListSol(l) : l \in StepLists }
    /\ num_attempts = 0
    /\ elapsed = 0
    /\ minSeen = BIGNUM
    /\ pruneArg = NoneSol

NextPrune == Prune

SpecPrune == InitPrune /\ [][NextPrune]_vars

(***************************************************************************)
(* Properties.                                                             *)
(***************************************************************************)
\* the result field of the last step of a list of steps
LastResult(l) == l[Len(l)][Len(l[Len(l)])]

\* the list l ends in a step whose result is at distance e from the target
EndsAtDistance(l, e) ==
    /\ l # <<>>
    /\ \/ LastResult(l) = Dec(targ + e)
       \/ e <= targ /\ LastResult(l) = Dec(targ - e)

\* C1: a call guess(targ, nums) with the default best returns (error,
\* solution) with error >= 0 and error = |result of the last step of
\* solution - targ|.  Stated for the pools of two or more numbers, the ones
\* from which a step can be recorded.
C1_ErrorOfLastStep ==
    (pc = "ret" /\ BagCardinality(nums) >= 2)
        => /\ error >= 0
           /\ error < BIGNUM
           /\ ~solution.isNone
           /\ EndsAtDistance(solution.list, error)

\* C2: remove_unused_steps is idempotent on the step lists guess returns:
\* a list that has been pruned is left as it is by a second pruning.
C2_PruneIdempotent ==
    pc = "pruned" => RemoveUnusedSteps(solution.list) = solution.list

(***************************************************************************)
(* Replaying a solution against the source numbers.                        *)
(***************************************************************************)
\* the four operations as the game defines them; division is exact
Apply(a, b, op) ==
    CASE op = "+" -> a + b
      [] op = "-" -> a - b
      [] op = "*" -> a * b
      [] op = "/" -> CHOOSE q \in 0..a : q * b = a

\* step st takes a and b out of the available values and records their result
Takes(st, a, b, avail) ==
    /\ BagIn(a, avail)
    /\ BagIn(b, avail (-) One(a))
    /\ st[1] = Dec(a)
    /\ st[3] = Dec(b)
    /\ st[2] \in {"+", "-", "*", "/"}
    /\ st[4] = "="
    /\ st[2] = "/" => (b # 0 /\ a % b = 0)
    /\ st[5] = Dec(Apply(a, b, st[2]))

ValidStep(st, avail) ==
    /\ Len(st) = 5
    /\ \E a \in BagToSet(avail) : \E b \in BagToSet(avail) : Takes(st, a, b, avail)

\* the values available after a valid step
AfterStep(st, avail) ==
    LET ab == CHOOSE ab \in BagToSet(avail) \X BagToSet(avail) :
                  Takes(st, ab[1], ab[2], avail)
    IN  ((avail (-) One(ab[1])) (-) One(ab[2])) (+) One(Apply(ab[1], ab[2], st[2]))

\* every step of l takes its operands from the values available at that
\* point and records the right result, and the last result is t
RECURSIVE ReplaysTo(_, _, _)
ReplaysTo(l, avail, t) ==
    /\ l # <<>>
    /\ ValidStep(Head(l), avail)
    /\ IF Len(l) = 1
       THEN Head(l)[5] = Dec(t)
       ELSE ReplaysTo(Tail(l), AfterStep(Head(l), avail), t)

\* C3 as stated: whenever has_solution's carried error is 0, every step of
\* the carried solution takes two operands from the values available, records
\* the operator's result, and the last result is the target.
C3_EveryStepReplays ==
    error = 0 => (~solution.isNone /\ ReplaysTo(solution.list, nums, targ))

\* C3 amended: whenever has_solution's carried error is 0, the carried
\* solution either replays as above, or is the single step "targ = targ" and
\* targ is one of the source numbers.
C3_ProbeSound ==
    error = 0 =>
        /\ ~solution.isNone
        /\ \/ ReplaysTo(solution.list, nums, targ)
           \/ solution.list = <<TrivialStep(targ)>> /\ BagIn(targ, nums)

\* has_solution is about to return true on a solution of two arithmetic steps
C3_Witness ==
    /\ mode = "probe"
    /\ pc = "done"
    /\ HasSolution
    /\ Len(solution.list) >= 2
    /\ ReplaysTo(solution.list, nums, targ)

\* C4: when guess returns to a caller that carries best forward, the error
\* it returns is not larger than the error carried in, and the solution it
\* returns differs from the one carried in only if the error is strictly
\* smaller.
C4_Monotone ==
    [][(pc' = "ret" /\ pc # "ret")
          => /\ error' <= error
             /\ solution' # solution => error' < error]_vars

\* a call after the first is about to return a strictly better solution
\* than the one carried in
C4_Witness ==
    /\ mode = "driver"
    /\ num_attempts >= 1
    /\ pc = "break"
    /\ error < BIGNUM
    /\ bestAlias
    /\ bestErr < error

HasStepAtDistance(l, e) ==
    \E k \in 1..Len(l) : EndsAtDistance(SubSeq(l, 1, k), e)

C10_PruneAccepts ==
    /\ pc # "raised"
    /\ pc = "pruned" => solution.list # <<>>

\* C5: remove_unused_steps never removes the last step: after pruning a
\* non-empty list of arithmetic steps the list is not empty and ends in the
\* step it ended in before.
C5_LastStepKept ==
    pc = "pruned"
        => /\ solution.list # <<>>
           /\ solution.list[Len(solution.list)] = pruneArg.list[Len(pruneArg.list)]

\* a list has been pruned in which an earlier step had the text of the last
\* step, and a step was removed
C5_Witness ==
    /\ mode = "prune"
    /\ pc = "pruned"
    /\ Len(solution.list) < Len(pruneArg.list)
    /\ \E k \in 1..(Len(pruneArg.list) - 1) :
         pruneArg.list[k] = pruneArg.list[Len(pruneArg.list)]

\* C8 as stated: the nesting depth of recursive guess calls never exceeds
\* ceil(n / 2) for a pool of n numbers, and every recorded step shrinks
\* the working pool by exactly one element.
C8_DepthHalfPool ==
    [][/\ 2 * depth' <= BagCardinality(nums) + 1
       /\ Len(steps') > Len(steps)
            => BagCardinality(numbers') = BagCardinality(numbers) - 1]_vars

\* C8 amended: the nesting depth never exceeds n - 1, a recorded step that
\* does not reach the target shrinks the working pool by exactly one element,
\* and the step that reaches the target shrinks it by two.
C8_DepthPoolMinusOne ==
    [][/\ depth' <= BagCardinality(nums) - 1
       /\ Len(steps') > Len(steps)
            => BagCardinality(numbers') =
                 BagCardinality(numbers) - (IF pc' = "break" THEN 2 ELSE 1)]_vars

\* a call on four or more numbers is nested n - 1 deep, past ceil(n / 2)
C8_Witness ==
    /\ pc = "loop"
    /\ BagCardinality(nums) >= 4
    /\ depth = BagCardinality(nums) - 1
    /\ Len(steps) = depth

\* C9: a guess call that is not abandoned returns, whatever zero results
\* are drawn on the way, and never holds more than n - 1 recorded steps for
\* a pool of n numbers.
C9_GuessCompletes ==
    /\ <>(pc \in {"ret", "pruned", "raised"})
    /\ [](Len(steps) <= BagCardinality(nums) - 1)

\* the call is in a pass in which a zero result can be drawn, with the
\* n - 1 st step about to be recorded
C9_Witness ==
    /\ pc = "loop"
    /\ ENABLED ZeroRetry
    /\ BagCardinality(nums) >= 3
    /\ Len(steps) = BagCardinality(nums) - 2

====
